---------------------------- MODULE Spec2Model ----------------------------
(* A model of the three probes of app.py: tail_file (a bounded backward   *)
(* scan of a file), bedrock_status (an unconnected ping and the parsing   *)
(* of its pong) and vpn_status (the parsing of a `wg show <if> dump`).    *)
(*                                                                        *)
(* Bytes and characters are numbers (a byte 0..255, a character its code  *)
(* point); byte strings and text strings are sequences of them.           *)
EXTENDS Integers, Sequences, FiniteSets, TLC

(* ---------------------------------------------------------------------- *)
(* Bounds of the model.                                                   *)
(* ---------------------------------------------------------------------- *)
MaxFileLen == 5
MaxLines == 2
MaxBlock == 3
MaxAppend == 2
MaxAppendFileLen == 3
MaxScanLen == 6
MaxFields == 6
MaxPeers == 3

(* ---------------------------------------------------------------------- *)
(* Characters and bytes the code names.                                   *)
(* ---------------------------------------------------------------------- *)
LF == 10
CR == 13
REPL == 65533
NUL == 0
TAB == 9
SEMI == 59
PONG == 28

Min(a, b) == IF a < b THEN a ELSE b

(* Sequences over S of length 0..k.                                       *)
SeqsUpTo(S, k) == UNION {[1..m -> S] : m \in 0..k}

(* ---------------------------------------------------------------------- *)
(* Python built-ins used by the code, computed as Python computes them.   *)
(* ---------------------------------------------------------------------- *)

(* bytes.count(b"\n") / the number of occurrences of one byte.            *)
RECURSIVE CountFrom(_, _, _)
CountFrom(s, c, i) ==
    IF i > Len(s) THEN 0
    ELSE (IF s[i] = c THEN 1 ELSE 0) + CountFrom(s, c, i + 1)

Count(s, c) == CountFrom(s, c, 1)

(* bytes.decode("utf-8", errors=...): one- and two-byte sequences; a byte *)
(* that starts no valid sequence is one U+FFFD under "replace" and is     *)
(* dropped under "ignore". (Leads of three- and four-byte sequences are   *)
(* not among the bytes the model draws.)                                  *)
RECURSIVE DecodeFrom(_, _, _, _)
DecodeFrom(b, i, errors, acc) ==
    IF i > Len(b) THEN acc
    ELSE IF b[i] < 128 THEN DecodeFrom(b, i + 1, errors, Append(acc, b[i]))
    ELSE IF /\ b[i] >= 194 /\ b[i] <= 223 /\ i < Len(b)
            /\ b[i + 1] >= 128 /\ b[i + 1] <= 191
         THEN DecodeFrom(b, i + 2, errors,
                         Append(acc, (b[i] - 192) * 64 + (b[i + 1] - 128)))
    ELSE DecodeFrom(b, i + 1, errors,
                    IF errors = "replace" THEN Append(acc, REPL) ELSE acc)

Decode(b, errors) == DecodeFrom(b, 1, errors, <<>>)

(* The line boundaries of str.splitlines().                               *)
LineBreaks == {10, 11, 12, 13, 28, 29, 30, 133, 8232, 8233}

(* str.splitlines(): "\r\n" is one boundary, the boundaries are dropped,  *)
(* and a final boundary opens no empty last line.                         *)
RECURSIVE SplitLinesFrom(_, _, _, _)
SplitLinesFrom(s, i, start, acc) ==
    IF i > Len(s)
    THEN (IF start <= Len(s) THEN Append(acc, SubSeq(s, start, Len(s))) ELSE acc)
    ELSE IF s[i] \in LineBreaks
         THEN LET j == IF s[i] = CR /\ i < Len(s) /\ s[i + 1] = LF
                       THEN i + 2 ELSE i + 1
              IN  SplitLinesFrom(s, j, j, Append(acc, SubSeq(s, start, i - 1)))
         ELSE SplitLinesFrom(s, i + 1, start, acc)

SplitLines(s) == SplitLinesFrom(s, 1, 1, <<>>)

(* The slice lines[-k:]: the last k elements, all of them when k is 0 or  *)
(* at least the length.                                                   *)
LastSlice(s, k) ==
    IF k = 0 \/ k >= Len(s) THEN s ELSE SubSeq(s, Len(s) - k + 1, Len(s))

(* str.split(sep) for a one-character separator.                          *)
RECURSIVE SplitFrom(_, _, _, _, _)
SplitFrom(s, sep, i, start, acc) ==
    IF i > Len(s) THEN Append(acc, SubSeq(s, start, Len(s)))
    ELSE IF s[i] = sep
         THEN SplitFrom(s, sep, i + 1, i + 1, Append(acc, SubSeq(s, start, i - 1)))
         ELSE SplitFrom(s, sep, i + 1, start, acc)

Split(s, sep) == SplitFrom(s, sep, 1, 1, <<>>)

(* str.strip(chars): the characters of cs removed from both ends.         *)
RECURSIVE StripLeft(_, _)
StripLeft(s, cs) ==
    IF s # <<>> /\ Head(s) \in cs THEN StripLeft(Tail(s), cs) ELSE s

RECURSIVE StripRight(_, _)
StripRight(s, cs) ==
    IF s # <<>> /\ s[Len(s)] \in cs THEN StripRight(SubSeq(s, 1, Len(s) - 1), cs) ELSE s

Strip(s, cs) == StripRight(StripLeft(s, cs), cs)

(* The characters str.strip() removes and str.isspace() accepts.          *)
Whitespace == {9, 10, 11, 12, 13, 28, 29, 30, 31, 32, 133, 160}

(* bytes.find(sub): the lowest 0-based index where sub starts, or -1.     *)
RECURSIVE FindFrom(_, _, _)
FindFrom(d, sub, i) ==
    IF i + Len(sub) > Len(d) THEN -1
    ELSE IF SubSeq(d, i + 1, i + Len(sub)) = sub THEN i
    ELSE FindFrom(d, sub, i + 1)

Find(d, sub) == FindFrom(d, sub, 0)

(* str.isdigit(): non-empty, and every character has the Unicode property *)
(* Numeric_Type Digit or Decimal. Of those the model draws the ASCII      *)
(* digits and the superscript digits U+00B2, U+00B3, U+00B9.              *)
DecimalChars == 48..57

DigitChars == DecimalChars \cup {178, 179, 185}

IsDigit(s) == s # <<>> /\ \A i \in 1..Len(s) : s[i] \in DigitChars

(* The superscript two, a digit for isdigit() and none for int().         *)
SupTwo == <<178>>

(* int(s) for a string that passed isdigit(): the decimal value, and a    *)
(* ValueError when a character is a digit but no decimal digit.           *)
RECURSIVE DecimalValue(_)
DecimalValue(s) ==
    IF s = <<>> THEN 0
    ELSE 10 * DecimalValue(SubSeq(s, 1, Len(s) - 1)) + (s[Len(s)] - 48)

PyInt(s) ==
    IF s # <<>> /\ \A i \in 1..Len(s) : s[i] \in DecimalChars
    THEN [ok |-> TRUE, val |-> DecimalValue(s)]
    ELSE [ok |-> FALSE, val |-> 0]

(* `int(t) if <present> and t.isdigit() else 0`                           *)
IntIfDigit(present, t) ==
    IF present /\ IsDigit(t) THEN PyInt(t) ELSE [ok |-> TRUE, val |-> 0]

(* str.encode("utf-8") and sep.join(fields), used to build inputs.        *)
RECURSIVE Encode(_)
Encode(s) ==
    IF s = <<>> THEN <<>>
    ELSE (IF Head(s) < 128 THEN <<Head(s)>>
          ELSE <<192 + (Head(s) \div 64), 128 + (Head(s) % 64)>>) \o Encode(Tail(s))

RECURSIVE Join(_, _)
Join(fs, sep) ==
    IF fs = <<>> THEN <<>>
    ELSE IF Len(fs) = 1 THEN fs[1]
    ELSE fs[1] \o <<sep>> \o Join(Tail(fs), sep)

(* ---------------------------------------------------------------------- *)
(* State.                                                                 *)
(* ---------------------------------------------------------------------- *)
VARIABLES
    (* tail_file *)
    file,       \* the bytes of the file at `path`, as they are now
    n,          \* the parameter n
    block,      \* the local `block`
    tpc,        \* where tail_file is
    fh,         \* the file object f: "none", "open" or "closed"
    pos,        \* f's position
    size,       \* the local `size`
    step,       \* the local `step`
    data,       \* the local `data`
    tres,       \* what tail_file gave: [out |-> "none" | "returned" | "raised", val |-> ...]
    S0,         \* the size measured by f.seek(0, SEEK_END) (history)
    terr,       \* whether an exception was raised inside the try (history)
    appended,   \* the number of bytes another process appended (history)
    (* bedrock_status *)
    bpc,        \* where bedrock_status is
    sock,       \* the socket s: "none", "open" or "closed"
    pong,       \* the local `data`: the datagram recvfrom gave
    bres,       \* what bedrock_status gave: [out |-> ..., val |-> the dict]
    berr,       \* the call that raised inside the try, or "none" (history)
    built,      \* what the reply datagram was built from (history)
    (* vpn_status *)
    wpc,        \* where vpn_status is
    raw,        \* the local `raw`
    now,        \* the local `now`
    lines,      \* the local `lines`
    wi,         \* the index in lines of the peer loop's next line
    iface_info, \* the local `iface_info`
    peers,      \* the local `peers`
    wres,       \* what vpn_status gave: [out |-> ..., val |-> the dict]
    dump        \* the lines the dump was built from, as field lists (history)

tailvars == <<file, n, block, tpc, fh, pos, size, step, data, tres, S0, terr, appended>>

pingvars == <<bpc, sock, pong, bres, berr, built>>

wgvars == <<wpc, raw, now, lines, wi, iface_info, peers, wres, dump>>

vars == <<tailvars, pingvars, wgvars>>

(* ---------------------------------------------------------------------- *)
(* tail_file                                                              *)
(* ---------------------------------------------------------------------- *)

(* The bytes the model's files are made of: "\n", "\r", and the two bytes *)
(* of U+00E9, each of which alone is an invalid sequence.                 *)
FileBytes == {LF, CR, 195, 169}

NoResult == [out |-> "none", val |-> <<>>]

(* The components that a specification leaves alone.                      *)
TailIdle ==
    /\ file = <<>> /\ n = 1 /\ block = 1 /\ tpc = "idle" /\ fh = "none"
    /\ pos = 0 /\ size = 0 /\ step = 0 /\ data = <<>> /\ tres = NoResult
    /\ S0 = 0 /\ terr = FALSE /\ appended = 0

PingIdle ==
    /\ bpc = "idle" /\ sock = "none" /\ pong = <<>> /\ bres = NoResult
    /\ berr = "none" /\ built = <<>>

WgIdle ==
    /\ wpc = "idle" /\ raw = <<>> /\ now = 0 /\ lines = <<>> /\ wi = 0
    /\ iface_info = <<>> /\ peers = <<>> /\ wres = NoResult /\ dump = <<>>

TailInitWith(files) ==
    /\ PingIdle
    /\ WgIdle
    /\ file \in files
    /\ n \in 1..MaxLines
    /\ block \in 1..MaxBlock
    /\ tpc = "call"
    /\ fh = "none"
    /\ pos = 0
    /\ size = 0
    /\ step = 0
    /\ data = <<>>
    /\ tres = NoResult
    /\ S0 = 0
    /\ terr = FALSE
    /\ appended = 0

TailInit == TailInitWith(SeqsUpTo(FileBytes, MaxFileLen))

(* `while size > 0 and data.count(b"\n") <= n`, with the mutant that      *)
(* stops one newline early.                                               *)
LoopCondEarly(sz, d, k) == sz > 0 /\ Count(d, LF) < k

LoopCond(sz, d, k) == sz > 0 /\ Count(d, LF) <= k

(* `step = min(block, size)`, with the mutant that forgets the min.       *)
StepOfBlockOnly(blk, sz) == blk

StepOf(blk, sz) == Min(blk, sz)

(* f.read(step) at position p of the file's current bytes: at most `st`   *)
(* bytes, fewer only at the end of the file. The mutant is f.read().      *)
ReadToEnd(f, p, st) == SubSeq(f, p + 1, Len(f))

ReadBytes(f, p, st) == SubSeq(f, p + 1, Min(p + st, Len(f)))

(* `lines = data.decode("utf-8", errors="replace").splitlines()` and      *)
(* `return lines[-n:]`.                                                   *)
TailLines(d, k) == LastSlice(SplitLines(Decode(d, "replace")), k)

(* `except Exception: return []`, with the mutant that returns the lines  *)
(* read so far.                                                           *)
TailExceptPartial(d, k) == [out |-> "returned", val |-> TailLines(d, k)]

TailExcept(d, k) == [out |-> "returned", val |-> <<>>]

(* The exit of `with open(...) as f`: f is closed however the block is    *)
(* left; f stays unset when open() itself raised. The mutant closes f     *)
(* only when the block ends normally.                                     *)
WithExitNoFinally(h, raised) == IF h = "open" /\ ~raised THEN "closed" ELSE h

WithExit(h, raised) == IF h = "open" THEN "closed" ELSE h

(* line 45: open(path, "rb") succeeds.                                    *)
TailOpen ==
    /\ tpc = "call"
    /\ fh' = "open"
    /\ pos' = 0
    /\ tpc' = "seek_end"
    /\ UNCHANGED <<file, n, block, size, step, data, tres, S0, terr, appended>>
    /\ UNCHANGED <<pingvars, wgvars>>

(* line 46: f.seek(0, os.SEEK_END).                                       *)
TailSeekEnd ==
    /\ tpc = "seek_end"
    /\ pos' = Len(file)
    /\ S0' = Len(file)
    /\ tpc' = "tell"
    /\ UNCHANGED <<file, n, block, fh, size, step, data, tres, terr, appended>>
    /\ UNCHANGED <<pingvars, wgvars>>

(* lines 47-49: size = f.tell(); block = 1024; data = b"".                *)
TailTell ==
    /\ tpc = "tell"
    /\ size' = pos
    /\ data' = <<>>
    /\ tpc' = "loop"
    /\ UNCHANGED <<file, n, block, fh, pos, step, tres, S0, terr, appended>>
    /\ UNCHANGED <<pingvars, wgvars>>

(* lines 50-52: the loop test, then step = min(block, size); size -= step *)
TailLoopEnter ==
    /\ tpc = "loop"
    /\ LoopCond(size, data, n)
    /\ step' = StepOf(block, size)
    /\ size' = size - step'
    /\ tpc' = "seek"
    /\ UNCHANGED <<file, n, block, fh, pos, data, tres, S0, terr, appended>>
    /\ UNCHANGED <<pingvars, wgvars>>

(* line 50: the loop test fails.                                          *)
TailLoopExit ==
    /\ tpc = "loop"
    /\ ~LoopCond(size, data, n)
    /\ tpc' = "decode"
    /\ UNCHANGED <<file, n, block, fh, pos, size, step, data, tres, S0, terr, appended>>
    /\ UNCHANGED <<pingvars, wgvars>>

(* line 53: f.seek(size); a negative offset is an OSError.                *)
TailSeek ==
    /\ tpc = "seek"
    /\ IF size >= 0
       THEN /\ pos' = size
            /\ tpc' = "read"
            /\ UNCHANGED <<fh, tres, terr>>
       ELSE /\ fh' = WithExit(fh, TRUE)
            /\ tres' = TailExcept(data, n)
            /\ terr' = TRUE
            /\ tpc' = "done"
            /\ UNCHANGED pos
    /\ UNCHANGED <<file, n, block, size, step, data, S0, appended>>
    /\ UNCHANGED <<pingvars, wgvars>>

(* line 54: data = f.read(step) + data.                                   *)
TailRead ==
    /\ tpc = "read"
    /\ LET chunk == ReadBytes(file, pos, step)
       IN  /\ data' = chunk \o data
           /\ pos' = pos + Len(chunk)
    /\ tpc' = "loop"
    /\ UNCHANGED <<file, n, block, fh, size, step, tres, S0, terr, appended>>
    /\ UNCHANGED <<pingvars, wgvars>>

(* lines 55-56: decode, splitlines, return lines[-n:]; the with block     *)
(* closes f.                                                              *)
TailReturn ==
    /\ tpc = "decode"
    /\ tres' = [out |-> "returned", val |-> TailLines(data, n)]
    /\ fh' = WithExit(fh, FALSE)
    /\ tpc' = "done"
    /\ UNCHANGED <<file, n, block, pos, size, step, data, S0, terr, appended>>
    /\ UNCHANGED <<pingvars, wgvars>>

(* lines 45-58: open, seek, tell or read raises (a missing or unreadable  *)
(* file, an I/O error); the with block is left and the except clause      *)
(* gives the result.                                                      *)
TailIOError ==
    /\ tpc \in {"call", "seek_end", "tell", "seek", "read", "decode"}
    /\ fh' = WithExit(fh, TRUE)
    /\ tres' = TailExcept(data, n)
    /\ terr' = TRUE
    /\ tpc' = "done"
    /\ UNCHANGED <<file, n, block, pos, size, step, data, S0, appended>>
    /\ UNCHANGED <<pingvars, wgvars>>

(* The bytes another process appends: a newline or a non-newline byte.    *)
AppendBytes == {LF, 195}

(* Another process appends one byte to the file.                          *)
FileAppend ==
    /\ tpc # "done"
    /\ appended < MaxAppend
    /\ \E b \in AppendBytes : file' = Append(file, b)
    /\ appended' = appended + 1
    /\ UNCHANGED <<n, block, tpc, fh, pos, size, step, data, tres, S0, terr>>
    /\ UNCHANGED <<pingvars, wgvars>>

TailStep ==
    \/ TailOpen
    \/ TailSeekEnd
    \/ TailTell
    \/ TailLoopEnter
    \/ TailLoopExit
    \/ TailSeek
    \/ TailRead
    \/ TailReturn

(* tail_file on a file nobody else touches, every call succeeding.        *)
SpecTail == TailInit /\ [][TailStep]_vars

(* The same on files of newline and non-newline bytes, the interpreter    *)
(* running the function to its end.                                       *)
ScanInit == TailInitWith(SeqsUpTo({LF, 195}, MaxScanLen))

FairSpecScan == ScanInit /\ [][TailStep]_vars /\ WF_vars(TailStep)

(* tail_file with open, seek, tell and read free to fail.                 *)
NextTailIO == TailStep \/ TailIOError

SpecTailIO == TailInit /\ [][NextTailIO]_vars

(* tail_file while another process appends to the file.                   *)
TailAppendInit == TailInitWith(SeqsUpTo(FileBytes, MaxAppendFileLen))

NextTailAppend == TailStep \/ FileAppend

SpecTailAppend == TailAppendInit /\ [][NextTailAppend]_vars

(* ---------------------------------------------------------------------- *)
(* bedrock_status                                                         *)
(* ---------------------------------------------------------------------- *)

(* line 70: magic                                                         *)
magic == <<0, 255, 255, 0, 254, 254, 254, 254, 253, 253, 253, 253, 18, 52, 86, 120>>

(* lines 89-90: "Minecraft Bedrock" and "Bedrock"                         *)
DefaultMotd == <<77, 105, 110, 101, 99, 114, 97, 102, 116, 32, 66, 101, 100, 114, 111, 99, 107>>

DefaultVersion == <<66, 101, 100, 114, 111, 99, 107>>

(* The field texts the model's replies are made of: "", "Mc", "12", and   *)
(* the superscript two.                                                   *)
Tokens == {<<>>, <<77, 99>>, <<49, 50>>, SupTwo}

(* The bytes a pong carries between its first byte and the magic: the     *)
(* server's time and GUID, or nothing.                                    *)
PongHeaders == {<<>>, <<0, 0, 0, 0, 0, 0, 0, 7, 1, 2, 3, 4, 5, 6, 7, 8>>}

(* A magic with its last byte corrupted.                                  *)
BadMagic == [magic EXCEPT ![16] = 121]

MidBytes(mid) ==
    IF mid = "magic" THEN magic ELSE IF mid = "bad" THEN BadMagic ELSE <<>>

ReplyShapes ==
    [first : {PONG, 1}, header : PongHeaders, mid : {"magic", "bad", "none"},
     fields : UNION {[1..k -> Tokens] : k \in 1..MaxFields}, nul : BOOLEAN]

(* The datagram of a shape: first byte, header, magic, the fields joined  *)
(* by ";" and encoded, and a terminating NUL or none.                     *)
Datagram(shape) ==
    <<shape.first>> \o shape.header \o MidBytes(shape.mid)
        \o Encode(Join(shape.fields, SEMI))
        \o (IF shape.nul THEN <<NUL>> ELSE <<>>)

EmptyShape == [first |-> 0, header |-> <<>>, mid |-> "none", fields |-> <<>>, nul |-> FALSE]

PingInit ==
    /\ TailIdle
    /\ WgIdle
    /\ bpc = "call"
    /\ sock = "none"
    /\ pong = <<>>
    /\ bres = NoResult
    /\ berr = "none"
    /\ built = EmptyShape

(* lines 102-103: `except Exception: return {"online": False}`, with the  *)
(* mutant that fills in the defaults.                                     *)
PingExceptDefaults ==
    [out |-> "returned",
     val |-> [online |-> FALSE, motd |-> DefaultMotd, version |-> DefaultVersion]]

PingExcept == [out |-> "returned", val |-> [online |-> FALSE]]

(* line 76: `not data or data[0] != 0x1c`, with the mutant that accepts   *)
(* any first byte.                                                        *)
NotPongAnyByte(d) == d = <<>>

NotPong(d) == d = <<>> \/ d[1] # PONG

(* lines 76-101: the reply's validation and parsing. `raised` is the      *)
(* ValueError of int() at line 91 or 92.                                  *)
ParsePong(d) ==
    IF NotPong(d) THEN [raised |-> FALSE, val |-> [online |-> FALSE]]
    ELSE
    LET idx == Find(d, magic) IN
    IF idx = -1 THEN [raised |-> FALSE, val |-> [online |-> TRUE]]
    ELSE
    LET sid == Strip(Decode(SubSeq(d, idx + Len(magic) + 1, Len(d)), "ignore"), {NUL})
        parts == Split(sid, SEMI)
        motd == IF Len(parts) > 1 THEN parts[2] ELSE DefaultMotd
        version == IF Len(parts) > 3 THEN parts[4] ELSE DefaultVersion
        online == IntIfDigit(Len(parts) > 4, IF Len(parts) > 4 THEN parts[5] ELSE <<>>)
        max_players == IntIfDigit(Len(parts) > 5, IF Len(parts) > 5 THEN parts[6] ELSE <<>>)
    IN  IF ~online.ok \/ ~max_players.ok
        THEN [raised |-> TRUE, val |-> [online |-> FALSE]]
        ELSE [raised |-> FALSE,
              val |-> [online |-> TRUE, motd |-> motd, version |-> version,
                       players |-> <<>>, player_count |-> online.val,
                       max_players |-> max_players.val]]

(* lines 65-66: socket.socket(...) and settimeout.                        *)
BedrockSocket ==
    /\ bpc = "call"
    /\ sock' = "open"
    /\ bpc' = "send"
    /\ UNCHANGED <<pong, bres, berr, built>>
    /\ UNCHANGED <<tailvars, wgvars>>

(* lines 70-72: the ping is built and sent.                               *)
BedrockSendto ==
    /\ bpc = "send"
    /\ bpc' = "recv"
    /\ UNCHANGED <<sock, pong, bres, berr, built>>
    /\ UNCHANGED <<tailvars, wgvars>>

(* line 74: recvfrom gives a datagram, possibly an empty one.             *)
BedrockRecvfrom ==
    /\ bpc = "recv"
    /\ \/ \E shape \in ReplyShapes :
             /\ pong' = Datagram(shape)
             /\ built' = shape
       \/ /\ pong' = <<>>
          /\ built' = EmptyShape
    /\ bpc' = "check"
    /\ UNCHANGED <<sock, bres, berr>>
    /\ UNCHANGED <<tailvars, wgvars>>

(* lines 75-101: the socket is closed and the reply parsed; a ValueError  *)
(* of int() goes to the except clause.                                    *)
BedrockParse ==
    /\ bpc = "check"
    /\ sock' = "closed"
    /\ LET r == ParsePong(pong)
       IN  IF r.raised
           THEN /\ bres' = PingExcept
                /\ berr' = "int"
           ELSE /\ bres' = [out |-> "returned", val |-> r.val]
                /\ berr' = "none"
    /\ bpc' = "done"
    /\ UNCHANGED <<pong, built>>
    /\ UNCHANGED <<tailvars, wgvars>>

(* lines 65-74 and 102-103: socket(), sendto() or recvfrom() raises (no   *)
(* socket to be had, a host that does not resolve, an unreachable         *)
(* network, the timeout); the socket is left as it is.                    *)
BedrockRaise ==
    /\ bpc \in {"call", "send", "recv"}
    /\ berr' = (IF bpc = "call" THEN "socket"
                ELSE IF bpc = "send" THEN "sendto" ELSE "recvfrom")
    /\ bres' = PingExcept
    /\ bpc' = "done"
    /\ UNCHANGED <<sock, pong, built>>
    /\ UNCHANGED <<tailvars, wgvars>>

NextPing ==
    \/ BedrockSocket
    \/ BedrockSendto
    \/ BedrockRecvfrom
    \/ BedrockParse
    \/ BedrockRaise

SpecPing == PingInit /\ [][NextPing]_vars

(* ---------------------------------------------------------------------- *)
(* vpn_status                                                             *)
(* ---------------------------------------------------------------------- *)

(* lines 215-216: the token "(none)"                                      *)
NoneToken == <<40, 110, 111, 110, 101, 41>>

(* The texts of a dump's listen_port field: "51", the superscript two,    *)
(* "x" and "".                                                            *)
PortTokens == {<<53, 49>>, SupTwo, <<120>>, <<>>}

(* The interface line: the first k of private key, public key, listen     *)
(* port and fwmark.                                                       *)
IfaceLines ==
    {SubSeq(<<<<75>>, <<80>>, port, <<48>>>>, 1, k) : k \in 1..4, port \in PortTokens}

(* A peer line of eight fields, of nine, cut to two or to seven fields,   *)
(* with a superscript digit as rx, or with a word as latest handshake.    *)
Full8(pk) == <<pk, <<>>, NoneToken, <<105>>, <<48>>, <<53>>, <<54>>, <<48>>>>

Full9(pk) == <<pk, <<115>>, <<101>>, NoneToken, <<49, 50>>, <<53>>, <<54>>, <<50, 53>>, <<114>>>>

PeerLine(pk, shape) ==
    CASE shape = "full8" -> Full8(pk)
      [] shape = "full9" -> Full9(pk)
      [] shape = "cut2" -> SubSeq(Full8(pk), 1, 2)
      [] shape = "cut7" -> SubSeq(Full9(pk), 1, 7)
      [] shape = "sup" -> [Full8(pk) EXCEPT ![6] = SupTwo]
      [] shape = "word" -> [Full9(pk) EXCEPT ![5] = <<120>>]

PeerLines ==
    {PeerLine(pk, shape) : pk \in {<<65>>, <<66>>},
                           shape \in {"full8", "full9", "cut2", "cut7", "sup", "word"}}
        \cup {<<<<>>>>}

(* A dump: an interface line, then peer lines and blank lines.            *)
Dumps == {<<il>> \o ps : il \in IfaceLines, ps \in SeqsUpTo(PeerLines, MaxPeers)}

(* The text wg prints for a dump: fields joined by tabs, one line each.   *)
DumpText(d) == Join([i \in 1..Len(d) |-> Join(d[i], TAB)], LF) \o <<LF>>

(* The values of int(time.time()) the model draws.                        *)
Nows == {5, 100}

WgInit ==
    /\ TailIdle
    /\ PingIdle
    /\ wpc = "call"
    /\ raw = <<>>
    /\ now = 0
    /\ lines = <<>>
    /\ wi = 0
    /\ iface_info = <<>>
    /\ peers = <<>>
    /\ wres = NoResult
    /\ dump = <<>>

(* line 202: `if l.strip()`                                               *)
NonBlank(l) == Strip(l, Whitespace) # <<>>

(* lines 206-207: the interface record; `raised` is the ValueError of     *)
(* int(parts[2]).                                                         *)
ParseInterface(line) ==
    LET parts == Split(line, TAB)
        port == IntIfDigit(Len(parts) > 2, IF Len(parts) > 2 THEN parts[3] ELSE <<>>)
    IN  [raised |-> ~port.ok,
         val |-> [public_key |-> IF Len(parts) > 1 THEN parts[2] ELSE <<>>,
                  listen_port |-> IF Len(parts) > 2 /\ IsDigit(parts[3]) /\ port.ok
                                  THEN <<port.val>> ELSE <<>>]]

(* lines 212-232: one peer line. p[2]..p[7] raise IndexError on a line of *)
(* fewer than eight fields and int() raises ValueError; either is caught  *)
(* and the line skipped. None is the empty sequence, a value v is <<v>>.  *)
ParsePeer(l, t) ==
    LET p == Split(l, TAB) IN
    IF Len(p) < 8 THEN [ok |-> FALSE, val |-> <<>>]
    ELSE
    LET hs == IntIfDigit(TRUE, p[5])
        rx == IntIfDigit(TRUE, p[6])
        tx == IntIfDigit(TRUE, p[7])
        keep == IntIfDigit(TRUE, p[8])
    IN  IF ~(hs.ok /\ rx.ok /\ tx.ok /\ keep.ok) THEN [ok |-> FALSE, val |-> <<>>]
        ELSE [ok |-> TRUE,
              val |-> [peer |-> p[1],
                       endpoint |-> IF p[3] # NoneToken THEN p[3] ELSE <<>>,
                       allowed_ips |-> IF p[4] # NoneToken THEN p[4] ELSE <<>>,
                       latest_handshake |-> hs.val,
                       handshake_age_sec |-> IF hs.val # 0 THEN <<t - hs.val>> ELSE <<>>,
                       transfer_rx |-> rx.val,
                       transfer_tx |-> tx.val,
                       persistent_keepalive |-> IF keep.val # 0 THEN <<keep.val>> ELSE <<>>]]

(* lines 190 and 36-41: try_cmd gives the stripped output of              *)
(* `wg show <iface> dump`, or "" when the command fails.                  *)
VpnTryCmd ==
    /\ wpc = "call"
    /\ \/ \E d \in Dumps :
             /\ dump' = d
             /\ raw' = Strip(DumpText(d), Whitespace)
       \/ /\ dump' = <<>>
          /\ raw' = <<>>
    /\ wpc' = "got"
    /\ UNCHANGED <<now, lines, wi, iface_info, peers, wres>>
    /\ UNCHANGED <<tailvars, pingvars>>

(* lines 191-197: no output; the answer is whether the unit is active, or *)
(* "unknown" without systemctl.                                           *)
VpnFallback ==
    /\ wpc = "got"
    /\ raw = <<>>
    /\ \/ \E active \in BOOLEAN :
             wres' = [out |-> "returned",
                      val |-> [type |-> "wireguard", iface |-> "wg0",
                               running |-> active, peers |-> <<>>]]
       \/ wres' = [out |-> "returned", val |-> [type |-> "unknown", running |-> FALSE]]
    /\ wpc' = "done"
    /\ UNCHANGED <<raw, now, lines, wi, iface_info, peers, dump>>
    /\ UNCHANGED <<tailvars, pingvars>>

(* lines 202-210: the non-blank lines, the interface record, peers = [],  *)
(* now. The ValueError of int(parts[2]) leaves vpn_status.                *)
VpnInterface ==
    /\ wpc = "got"
    /\ raw # <<>>
    /\ lines' = SelectSeq(SplitLines(raw), NonBlank)
    /\ IF lines' = <<>>
       THEN /\ wres' = [out |-> "returned",
                        val |-> [type |-> "wireguard", iface |-> "wg0",
                                 running |-> FALSE, peers |-> <<>>]]
            /\ wpc' = "done"
            /\ UNCHANGED <<now, wi, iface_info, peers>>
       ELSE LET r == ParseInterface(lines'[1]) IN
            IF r.raised
            THEN /\ wres' = [out |-> "raised", val |-> "ValueError"]
                 /\ wpc' = "done"
                 /\ UNCHANGED <<now, wi, iface_info, peers>>
            ELSE /\ iface_info' = r.val
                 /\ peers' = <<>>
                 /\ now' \in Nows
                 /\ wi' = 2
                 /\ wpc' = "peers"
                 /\ UNCHANGED wres
    /\ UNCHANGED <<raw, dump>>
    /\ UNCHANGED <<tailvars, pingvars>>

(* lines 211-232: one turn of the loop over lines[1:].                    *)
VpnPeer ==
    /\ wpc = "peers"
    /\ wi <= Len(lines)
    /\ LET r == ParsePeer(lines[wi], now)
       IN  peers' = IF r.ok THEN Append(peers, r.val) ELSE peers
    /\ wi' = wi + 1
    /\ UNCHANGED <<wpc, raw, now, lines, iface_info, wres, dump>>
    /\ UNCHANGED <<tailvars, pingvars>>

(* line 234: the result.                                                  *)
VpnReturn ==
    /\ wpc = "peers"
    /\ wi > Len(lines)
    /\ wres' = [out |-> "returned",
                val |-> [type |-> "wireguard", iface |-> "wg0", running |-> TRUE,
                         interface |-> iface_info, peers |-> peers]]
    /\ wpc' = "done"
    /\ UNCHANGED <<raw, now, lines, wi, iface_info, peers, dump>>
    /\ UNCHANGED <<tailvars, pingvars>>

NextWg ==
    \/ VpnTryCmd
    \/ VpnFallback
    \/ VpnInterface
    \/ VpnPeer
    \/ VpnReturn

SpecWg == WgInit /\ [][NextWg]_vars

(* ---------------------------------------------------------------------- *)
(* What "the lines of a text" are, stated without scanning: a terminator  *)
(* is a line-boundary character, "\r\n" counting as one; a line is the    *)
(* text between two terminators, and a non-empty rest after the last      *)
(* terminator is a last line.                                             *)
(* ---------------------------------------------------------------------- *)
Terms(t) ==
    {i \in 1..Len(t) : /\ t[i] \in LineBreaks
                       /\ ~(t[i] = LF /\ i > 1 /\ t[i - 1] = CR)}

TermEnd(t, i) == IF t[i] = CR /\ i < Len(t) /\ t[i + 1] = LF THEN i + 1 ELSE i

KthTerm(t, k) ==
    CHOOSE i \in Terms(t) : Cardinality({j \in Terms(t) : j <= i}) = k

RefLineCount(t) ==
    LET T == Terms(t)
        nt == Cardinality(T)
    IN  IF nt = 0 THEN (IF Len(t) > 0 THEN 1 ELSE 0)
        ELSE nt + (IF TermEnd(t, KthTerm(t, nt)) < Len(t) THEN 1 ELSE 0)

RefLine(t, k) ==
    LET nt == Cardinality(Terms(t))
        first == IF k = 1 THEN 1 ELSE TermEnd(t, KthTerm(t, k - 1)) + 1
        last == IF k <= nt THEN KthTerm(t, k) - 1 ELSE Len(t)
    IN  SubSeq(t, first, last)

(* The last min(k, L) lines of the bytes f, oldest first.                 *)
RefLastLines(f, k) ==
    LET t == Decode(f, "replace")
        L == RefLineCount(t)
        m == Min(k, L)
    IN  [j \in 1..m |-> RefLine(t, L - m + j)]

(* C1: for every file content, every n >= 1 and every block size,         *)
(* tail_file returns exactly the last min(n, L) lines of the whole file,  *)
(* oldest first, L being the file's line count; no returned line is a     *)
(* fragment cut at a block boundary.                                      *)
C1_TailIsLastLines ==
    tpc = "done" => tres = [out |-> "returned", val |-> RefLastLines(file, n)]

(* The scan stopped before the start of a file longer than one block,     *)
(* inside a line, and the file has more lines than asked for.             *)
C1_Witness ==
    /\ tpc = "done"
    /\ size > 0
    /\ Len(file) > block
    /\ file[size] \notin LineBreaks
    /\ RefLineCount(Decode(file, "replace")) > n
    /\ Len(tres.val) = n

(* C9: in the backward scan the buffer always equals the file bytes from  *)
(* the current offset to the size S measured at the start; a block is at  *)
(* most `block` bytes and is read only while the offset is above 0 and    *)
(* the buffer holds at most n newline bytes; and the loop terminates.     *)
ScanInv ==
    /\ tpc \in {"loop", "decode", "done"} => data = SubSeq(file, size + 1, S0)
    /\ tpc \in {"seek", "read"} =>
          /\ data = SubSeq(file, size + step + 1, S0)
          /\ step >= 1 /\ step <= block
          /\ size >= 0
          /\ Count(data, LF) <= n
    /\ tpc = "read" => pos = size
    /\ size >= 0 /\ size <= S0

C9_ScanInvariantAndTermination == []ScanInv /\ <>(tpc = "done")

(* The third block of a scan is about to be read.                         *)
C9_Witness ==
    /\ tpc = "read"
    /\ Len(data) = 2 * block
    /\ size > 0

(* C7: tail_file never raises; when open, seek, tell or read fails the    *)
(* result is the empty sequence, never the lines read so far.             *)
C7_ErrorGivesEmpty ==
    /\ tres.out # "raised"
    /\ tpc = "done" => tres.out = "returned"
    /\ (tpc = "done" /\ terr) => tres.val = <<>>

(* A read failed after a block holding a whole line had been read.        *)
C7_Witness ==
    /\ tpc = "done"
    /\ terr
    /\ Count(data, LF) >= 1
    /\ TailLines(data, n) # <<>>
    /\ tres.val = <<>>

(* C8: whenever tail_file has opened the file, the file is closed by the  *)
(* time tail_file returns, on every exit path.                            *)
C8_HandleClosed ==
    tpc = "done" => /\ fh \in {"closed", "none"}
                    /\ fh = "none" => (terr /\ S0 = 0 /\ data = <<>>)

(* An exception left the with block in the middle of the scan.            *)
C8_Witness ==
    /\ tpc = "done"
    /\ terr
    /\ fh = "closed"
    /\ size > 0
    /\ data # <<>>

(* C10: when another process appends to the file during the scan,         *)
(* tail_file does not raise and returns the last n lines of the first S   *)
(* bytes, S being the size measured at the start; no byte appended later  *)
(* is in the result.                                                      *)
C10_AppendIgnored ==
    /\ tres.out # "raised"
    /\ tpc = "done" =>
          tres = [out |-> "returned", val |-> RefLastLines(SubSeq(file, 1, S0), n)]

(* Bytes were appended after the size was measured, and they would have   *)
(* changed the result.                                                    *)
C10_Witness ==
    /\ tpc = "done"
    /\ S0 > 0
    /\ Len(file) > S0
    /\ tres.val # <<>>
    /\ tres.val # RefLastLines(file, n)

(* ---------------------------------------------------------------------- *)
(* bedrock_status: the claims.                                            *)
(* ---------------------------------------------------------------------- *)

(* d holds sub as a contiguous substring.                                 *)
Contains(d, sub) ==
    \E i \in 0..(Len(d) - Len(sub)) : SubSeq(d, i + 1, i + Len(sub)) = sub

(* "Purely numeric": one or more of the characters 0..9.                  *)
PurelyNumeric(t) == t # <<>> /\ \A i \in 1..Len(t) : t[i] \in 48..57

CountOrZero(fs, i) ==
    IF Len(fs) > i /\ PurelyNumeric(fs[i + 1]) THEN DecimalValue(fs[i + 1]) ELSE 0

(* C2: a reply whose first byte is 0x1C and which holds the magic gives   *)
(* online=true, motd = field 1 (the placeholder if absent), version =     *)
(* field 3 (the placeholder if absent), player_count = the value of field *)
(* 4 if it is present and purely numeric and 0 otherwise, max_players the *)
(* same from field 5, whatever the number and content of the fields.      *)
C2_FieldsByPosition ==
    (bpc = "done" /\ berr \in {"none", "int"} /\ pong # <<>>
        /\ pong[1] = PONG /\ Contains(pong, magic)) =>
        /\ bres.out = "returned"
        /\ bres.val.online = TRUE
        /\ DOMAIN bres.val = {"online", "motd", "version", "players", "player_count", "max_players"}
        /\ bres.val.motd = (IF Len(built.fields) > 1 THEN built.fields[2] ELSE DefaultMotd)
        /\ bres.val.version = (IF Len(built.fields) > 3 THEN built.fields[4] ELSE DefaultVersion)
        /\ bres.val.player_count = CountOrZero(built.fields, 4)
        /\ bres.val.max_players = CountOrZero(built.fields, 5)

(* C5: bedrock_status never raises and always returns a value; when       *)
(* socket(), sendto() or recvfrom() fails, or the datagram is empty, the  *)
(* result is online=false, and a result with online=false carries no      *)
(* other field.                                                           *)
C5_FailureIsOffline ==
    /\ bres.out # "raised"
    /\ bpc = "done" =>
          /\ bres.out = "returned"
          /\ (berr \in {"socket", "sendto", "recvfrom"} \/ pong = <<>>) =>
                bres.val.online = FALSE
          /\ bres.val.online = FALSE => DOMAIN bres.val = {"online"}

(* recvfrom timed out on an open socket.                                  *)
C5_Witness ==
    /\ bpc = "done"
    /\ berr = "recvfrom"
    /\ sock = "open"
    /\ bres.val = [online |-> FALSE]

(* C6: a reply whose first byte is not 0x1C gives online=false even when  *)
(* it holds the magic; a reply whose first byte is 0x1C and which does    *)
(* not hold the magic as a contiguous substring gives online=true and no  *)
(* other field.                                                           *)
C6_ValidationOrder ==
    (bpc = "done" /\ berr = "none" /\ pong # <<>>) =>
        /\ pong[1] # PONG => bres.val = [online |-> FALSE]
        /\ (pong[1] = PONG /\ ~Contains(pong, magic)) => bres.val = [online |-> TRUE]

(* A reply with a wrong first byte that holds the magic and six fields    *)
(* has been answered.                                                     *)
C6_Witness ==
    /\ bpc = "done"
    /\ berr = "none"
    /\ pong # <<>>
    /\ pong[1] # PONG
    /\ Contains(pong, magic)
    /\ Len(built.fields) >= 6
    /\ bres.val = [online |-> FALSE]

(* ---------------------------------------------------------------------- *)
(* vpn_status: the claims.                                                *)
(* ---------------------------------------------------------------------- *)

WellFormed(fields) == Len(fields) >= 8

(* C3: parsing a dump is total: for every non-empty dump, whatever the    *)
(* number of fields of the interface line and whatever its listen port    *)
(* field holds, vpn_status returns a status and never raises; a listen    *)
(* port that is no parsable integer gives an absent listen port.          *)
C3_DumpParsingTotal ==
    /\ wres.out # "raised"
    /\ (wpc = "done" /\ dump # <<>>) =>
          /\ wres.out = "returned"
          /\ wres.val.running = TRUE
          /\ wres.val.interface.listen_port =
                (IF Len(dump[1]) > 2 /\ PurelyNumeric(dump[1][3])
                 THEN <<DecimalValue(dump[1][3])>> ELSE <<>>)

(* C4: the returned peers are exactly the well-formed peer lines (those   *)
(* of at least eight tab-separated fields) in dump order; a malformed     *)
(* line is skipped alone and removes or reorders no other peer.           *)
C4_PeersAreWellFormedLines ==
    (wpc = "done" /\ dump # <<>> /\ wres.out = "returned") =>
        LET good == SelectSeq(Tail(dump), WellFormed)
        IN  /\ Len(wres.val.peers) = Len(good)
            /\ \A i \in 1..Len(good) : wres.val.peers[i].peer = good[i][1]

=============================================================================
